---- MODULE Spec2Model ----
(***************************************************************************)
(* Model of LocalDevice (sdk/lib/dragonboard/local_device.cpp): the        *)
(* capture session (ImplData), its buffer pool, and the V4L2 driver it     *)
(* talks to through xioctl/select/mmap/munmap.                             *)
(*                                                                         *)
(* Every public method is one action.  The outcome of each driver or libc  *)
(* call made by the method is an input of the action (an "outcome" record  *)
(* drawn with \E); the sequence of calls the method issued is recorded in  *)
(* cmds, and the method's return value in call.ret.                        *)
(***************************************************************************)
EXTENDS Integers, Sequences, FiniteSets, TLC

(* ----------------------------- bounds -------------------------------- *)
\* Largest number of buffers the driver grants to one VIDIOC_REQBUFS.
MaxGrant == 3

(* ------------------------- program constants ------------------------- *)
\* req.count, the number of buffers setFrameType asks for
ReqCount == 4
\* MAP_FAILED, (void *) -1
MAP_FAILED == -1
\* the null pointer / zeroed memory left by CLEAR and calloc
NULL == 0

\* aditof::Status values returned by the methods; ABORT stands for a call
\* that never returned because the process was killed inside it.
OK == "OK"
BUSY == "BUSY"
GENERIC_ERROR == "GENERIC_ERROR"
ABORT == "ABORT"
RUNNING == "RUNNING"

\* FrameDetails as left by CLEAR(*m_implData)
NoDetails == [width |-> 0, height |-> 0, type |-> ""]
\* the two entries of getAvailableFrameTypes
DepthIr == [width |-> 640, height |-> 960, type |-> "depth_ir"]
Raw == [width |-> 668, height |-> 750, type |-> "raw"]
getAvailableFrameTypes == {DepthIr, Raw}

\* addresses mmap can hand out
Addrs == 1..(2 * MaxGrant)

\* bytes of one packed plane of a geometry: 3 bytes for every 2 pixels
PlaneLength(d) == (d.height * d.width * 3) \div 2

VARIABLES
    started,        \* ImplData::started
    nVideoBuffers,  \* ImplData::nVideoBuffers
    videoBuffers,   \* ImplData::videoBuffers: sequence of [start, length]; entry i is videoBuffers[i+1]
    vbState,        \* what the videoBuffers pointer refers to: "null", "alloc" or "freed"
    frameDetails,   \* ImplData::frameDetails
    mapped,         \* process address space: mapped[a] = length of the live mapping at a, 0 if none
    drvCount,       \* driver: buffers granted by the last successful VIDIOC_REQBUFS
    drvQueued,      \* driver: indices of the buffers it currently owns (queued)
    drvStreaming,   \* driver: streaming is on
    drvFmt,         \* driver: format last applied with VIDIOC_S_FMT
    life,           \* "live", "destroyed" after the destructor, "aborted" once the process was killed
    call,           \* the last method call: [op, arg, ret]
    cmds,           \* the driver/libc calls that method call issued, in order
    unpack,         \* the locals of getFrame's unpacking loops, one triplet per step
    afe             \* the locals of writeAfeRegisters' packet loop, one packet per step

vars == <<started, nVideoBuffers, videoBuffers, vbState, frameDetails, mapped,
          drvCount, drvQueued, drvStreaming, drvFmt, life, call, cmds, unpack, afe>>

(* --------------------------- bookkeeping ----------------------------- *)
\* one issued driver/libc call: its name, the buffer index (or count) it
\* names (-1 if none) and its result
Cmd(c, i, r) == [cmd |-> c, idx |-> i, res |-> r]

Res(ok) == IF ok THEN "ok" ELSE "fail"

\* the session and driver state as one record, threaded through a method
Cur == [started |-> started, nVideoBuffers |-> nVideoBuffers,
        videoBuffers |-> videoBuffers, vbState |-> vbState,
        frameDetails |-> frameDetails, mapped |-> mapped,
        drvCount |-> drvCount, drvQueued |-> drvQueued,
        drvStreaming |-> drvStreaming, drvFmt |-> drvFmt,
        life |-> life, ret |-> RUNNING, cmds |-> <<>>, req |-> 0, idx |-> 0]

Running(s) == s.ret = RUNNING

Return(s, status) == [s EXCEPT !.ret = status]

Issue(s, c, i, r) == [s EXCEPT !.cmds = Append(@, Cmd(c, i, r))]

Commit(s, op, arg) ==
    /\ started' = s.started
    /\ nVideoBuffers' = s.nVideoBuffers
    /\ videoBuffers' = s.videoBuffers
    /\ vbState' = s.vbState
    /\ frameDetails' = s.frameDetails
    /\ mapped' = s.mapped
    /\ drvCount' = s.drvCount
    /\ drvQueued' = s.drvQueued
    /\ drvStreaming' = s.drvStreaming
    /\ drvFmt' = s.drvFmt
    /\ life' = s.life
    /\ call' = [op |-> op, arg |-> arg, ret |-> s.ret]
    /\ cmds' = s.cmds
    /\ UNCHANGED <<unpack, afe>>

\* getFrame's locals before the unpacking starts
NotUnpacking ==
    [pc |-> "idle", i |-> 0, j |-> 0, width |-> 0, height |-> 0, offset |-> <<0, 0>>,
     offset_idx |-> 0, rewound |-> FALSE, read |-> <<0, 0, 0>>,
     wrote |-> <<[at |-> 0, val |-> 0], [at |-> 0, val |-> 0]>>]

\* 2^26: the remaining-byte counter of writeAfeRegisters is a 64-bit size_t,
\* kept as length = (qh * 2^26 + ql) * 4096 + r with qh, ql < 2^26, r < 4096
Limb == 2 ^ 26

\* writeAfeRegisters' locals before the call
NotWriting ==
    [pc |-> "idle", n |-> 0, length |-> [qh |-> 0, ql |-> 0, r |-> 0],
     sampleCnt |-> 0, packets |-> 0, lastRead |-> -1, ret |-> RUNNING]

Init ==
    /\ started = FALSE
    /\ nVideoBuffers = 0
    /\ videoBuffers = <<>>
    /\ vbState = "null"
    /\ frameDetails = NoDetails
    /\ mapped = [a \in Addrs |-> 0]
    /\ drvCount = 0
    /\ drvQueued = {}
    /\ drvStreaming = FALSE
    /\ drvFmt = NoDetails
    /\ life = "live"
    /\ call = [op |-> "LocalDevice", arg |-> NoDetails, ret |-> OK]
    /\ cmds = <<>>
    /\ unpack = NotUnpacking
    /\ afe = NotWriting

(* ------------------------- the V4L2 driver ---------------------------- *)
\* VIDIOC_QBUF: the driver takes buffer i unless it refuses (want = FALSE),
\* does not know i, or already owns i.
xioctl_QBUF(s, i, want) ==
    LET ok == want /\ i < s.drvCount /\ i \notin s.drvQueued
        s1 == Issue(s, "VIDIOC_QBUF", i, Res(ok))
    IN  IF ok THEN [s1 EXCEPT !.drvQueued = @ \cup {i}] ELSE s1

\* VIDIOC_STREAMON
xioctl_STREAMON(s, want) ==
    LET s1 == Issue(s, "VIDIOC_STREAMON", -1, Res(want))
    IN  IF want THEN [s1 EXCEPT !.drvStreaming = TRUE] ELSE s1

\* VIDIOC_STREAMOFF: on success every buffer goes back to the application
xioctl_STREAMOFF(s, want) ==
    LET s1 == Issue(s, "VIDIOC_STREAMOFF", -1, Res(want))
    IN  IF want THEN [s1 EXCEPT !.drvStreaming = FALSE, !.drvQueued = {}] ELSE s1

LastOk(s) == s.cmds[Len(s.cmds)].res = "ok"

(* ------------------------------ start -------------------------------- *)
\* mutant: the started check of start() is dropped
AlreadyStarted_Never(s) == FALSE

\* if (m_implData->started)
AlreadyStarted(s) == s.started

\* the enqueue loop; failAt is the index whose VIDIOC_QBUF the driver refuses
RECURSIVE EnqueueAll(_, _, _)
EnqueueAll(i, s, failAt) ==
    IF i >= s.nVideoBuffers THEN s
    ELSE LET s1 == xioctl_QBUF(s, i, i # failAt)
         IN  IF ~LastOk(s1) THEN Return(s1, GENERIC_ERROR)
             ELSE EnqueueAll(i + 1, s1, failAt)

\* mutant: started is set whatever VIDIOC_STREAMON returned
StreamOn_Unchecked(s, want) ==
    LET s1 == xioctl_STREAMON(s, want)
    IN  IF ~LastOk(s1) THEN Return([s1 EXCEPT !.started = TRUE], GENERIC_ERROR)
        ELSE Return([s1 EXCEPT !.started = TRUE], OK)

StreamOn(s, want) ==
    LET s1 == xioctl_STREAMON(s, want)
    IN  IF ~LastOk(s1) THEN Return(s1, GENERIC_ERROR)
        ELSE Return([s1 EXCEPT !.started = TRUE], OK)

startCall(s, failAt, streamOnOk) ==
    IF AlreadyStarted(s) THEN Return(s, BUSY)
    ELSE LET s1 == EnqueueAll(0, s, failAt)
         IN  IF Running(s1) THEN StreamOn(s1, streamOnOk) ELSE s1

start ==
    /\ life = "live"
    /\ \E failAt \in 0..MaxGrant, streamOnOk \in BOOLEAN :
          Commit(startCall(Cur, failAt, streamOnOk), "start", NoDetails)

(* ------------------------------- stop -------------------------------- *)
\* if (!m_implData->started)
AlreadyStopped(s) == ~s.started

\* mutant: started is cleared before VIDIOC_STREAMOFF is checked
StreamOff_ClearFirst(s, want) ==
    LET s1 == [xioctl_STREAMOFF(s, want) EXCEPT !.started = FALSE]
    IN  IF ~LastOk(s1) THEN Return(s1, GENERIC_ERROR) ELSE Return(s1, OK)

StreamOff(s, want) ==
    LET s1 == xioctl_STREAMOFF(s, want)
    IN  IF ~LastOk(s1) THEN Return(s1, GENERIC_ERROR)
        ELSE Return([s1 EXCEPT !.started = FALSE], OK)

stopCall(s, streamOffOk) ==
    IF AlreadyStopped(s) THEN Return(s, BUSY)
    ELSE StreamOff(s, streamOffOk)

stop ==
    /\ life = "live"
    /\ \E streamOffOk \in BOOLEAN :
          Commit(stopCall(Cur, streamOffOk), "stop", NoDetails)

(* --------------------------- setFrameType ---------------------------- *)
\* The outcome of one setFrameType call: the call that fails first (step,
\* idx; step "none" when nothing fails), the count the driver grants, and
\* whether the allocator kills the process when it is handed a pointer it
\* already freed.
Steps == {"none", "munmap", "VIDIOC_S_FMT", "VIDIOC_REQBUFS", "calloc",
          "VIDIOC_QUERYBUF", "mmap"}
Indexed == {"munmap", "VIDIOC_QUERYBUF", "mmap"}
SetFrameTypeOutcomes ==
    { o \in [step : Steps, idx : 0..(MaxGrant - 1), granted : 1..MaxGrant,
             abort : BOOLEAN] :
        \* fields a call with this outcome never looks at are held fixed
        /\ o.step \notin Indexed => o.idx = 0
        /\ o.step \in {"munmap", "VIDIOC_S_FMT", "VIDIOC_REQBUFS"} => o.granted = 1
        /\ o.step \in {"VIDIOC_QUERYBUF", "mmap"} => o.idx < o.granted
        /\ o.step = "munmap" => ~o.abort }

Fails(o, step, i) == o.step = step /\ o.idx = i

\* munmap(a, length): a successful munmap leaves nothing mapped at a
munmap(s, i, want) ==
    LET a == s.videoBuffers[i + 1].start
        s1 == Issue(s, "munmap", i, Res(want))
    IN  IF want /\ a \in Addrs THEN [s1 EXCEPT !.mapped[a] = 0] ELSE s1

\* free(m_implData->videoBuffers).  Freeing a pointer that was already freed
\* is undefined: the allocator either aborts the process or carries on.
free(s, abort) ==
    CASE s.vbState = "null"  -> Issue(s, "free", -1, "null")
      [] s.vbState = "alloc" ->
            [Issue(s, "free", -1, "ok") EXCEPT !.vbState = "freed", !.videoBuffers = <<>>]
      [] s.vbState = "freed" ->
            LET s1 == Issue(s, "free", -1, "double")
            IN  IF abort THEN Return([s1 EXCEPT !.life = "aborted"], ABORT) ELSE s1

\* the unmap loop of the geometry-change branch
RECURSIVE UnmapAll(_, _, _)
UnmapAll(i, s, o) ==
    IF i >= s.nVideoBuffers THEN s
    ELSE LET s1 == munmap(s, i, ~Fails(o, "munmap", i))
         IN  IF ~LastOk(s1) THEN Return(s1, GENERIC_ERROR)
             ELSE UnmapAll(i + 1, s1, o)

\* mutant: the old pool is dropped without unmapping its buffers
ReleasePool_SkipUnmap(s, o) ==
    LET s2 == free(s, o.abort)
    IN  IF Running(s2) THEN [s2 EXCEPT !.nVideoBuffers = 0] ELSE s2

\* the geometry-change branch: unmap every buffer, free the array, clear the count
ReleasePool(s, o) ==
    LET s1 == UnmapAll(0, s, o)
        s2 == IF Running(s1) THEN free(s1, o.abort) ELSE s1
    IN  IF Running(s2) THEN [s2 EXCEPT !.nVideoBuffers = 0] ELSE s2

\* mutant: the early return for an unchanged geometry is missing
ReleaseOrKeep_NoShortcut(s, details, o) ==
    IF details # s.frameDetails THEN ReleasePool(s, o) ELSE s

\* if (details != frameDetails) {...} else if (nVideoBuffers) return status;
ReleaseOrKeep(s, details, o) ==
    IF details # s.frameDetails THEN ReleasePool(s, o)
    ELSE IF s.nVideoBuffers # 0 THEN Return(s, OK)
    ELSE s

\* VIDIOC_S_FMT
SetFormat(s, details, o) ==
    LET ok == ~Fails(o, "VIDIOC_S_FMT", 0)
        s1 == Issue(s, "VIDIOC_S_FMT", -1, Res(ok))
    IN  IF ~ok THEN Return(s1, GENERIC_ERROR) ELSE [s1 EXCEPT !.drvFmt = details]

\* VIDIOC_REQBUFS: the driver replaces its buffers and writes the granted
\* count into req.count
RequestBuffers(s, o) ==
    LET ok == ~Fails(o, "VIDIOC_REQBUFS", 0)
        s1 == Issue(s, "VIDIOC_REQBUFS", ReqCount, Res(ok))
    IN  IF ~ok THEN Return(s1, GENERIC_ERROR)
        ELSE [s1 EXCEPT !.req = o.granted, !.drvCount = o.granted, !.drvQueued = {}]

\* videoBuffers = calloc(req.count, ...)
AllocArray(s, o) ==
    LET ok == ~Fails(o, "calloc", 0)
        s1 == Issue(s, "calloc", -1, Res(ok))
    IN  IF ~ok THEN Return([s1 EXCEPT !.videoBuffers = <<>>, !.vbState = "null"],
                           GENERIC_ERROR)
        ELSE [s1 EXCEPT !.videoBuffers = [k \in 1..s.req |-> [start |-> NULL, length |-> 0]],
                        !.vbState = "alloc"]

FreeAddrs(s) == {a \in Addrs : s.mapped[a] = 0}
Lowest(S) == CHOOSE a \in S : \A b \in S : a <= b

\* the query-and-map loop; nVideoBuffers is the loop counter
RECURSIVE MapAll(_, _)
MapAll(s, o) ==
    IF s.nVideoBuffers >= s.req THEN s
    ELSE
      LET n == s.nVideoBuffers
          qok == ~Fails(o, "VIDIOC_QUERYBUF", n) /\ n < s.drvCount
          s1 == Issue(s, "VIDIOC_QUERYBUF", n, Res(qok))
          len == PlaneLength(s.drvFmt)
          mok == ~Fails(o, "mmap", n) /\ FreeAddrs(s) # {} /\ len > 0
          a == IF mok THEN Lowest(FreeAddrs(s)) ELSE MAP_FAILED
          s2 == [Issue(s1, "mmap", n, Res(mok)) EXCEPT
                    !.videoBuffers[n + 1].start = a,
                    !.mapped = IF mok THEN [@ EXCEPT ![a] = len] ELSE @]
      IN  IF ~qok THEN Return(s1, GENERIC_ERROR)
          ELSE IF ~mok THEN Return(s2, GENERIC_ERROR)
          ELSE MapAll([s2 EXCEPT !.videoBuffers[n + 1].length = len,
                                 !.nVideoBuffers = n + 1], o)

\* for (m_implData->nVideoBuffers = 0; ...)
MapPool(s, o) == MapAll([s EXCEPT !.nVideoBuffers = 0], o)

\* mutant: the pool is requested and mapped first, the format applied last
ApplyAndAllocate_AllocateFirst(s, details, o) ==
    LET s1 == RequestBuffers(s, o)
        s2 == IF Running(s1) THEN AllocArray(s1, o) ELSE s1
        s3 == IF Running(s2) THEN MapPool(s2, o) ELSE s2
        s4 == IF Running(s3) THEN SetFormat(s3, details, o) ELSE s3
    IN  IF Running(s4) THEN Return([s4 EXCEPT !.frameDetails = details], OK) ELSE s4

\* everything after the first branch: set the format, request the buffers,
\* allocate the array, map the buffers, record the geometry
ApplyAndAllocate(s, details, o) ==
    LET s1 == SetFormat(s, details, o)
        s2 == IF Running(s1) THEN RequestBuffers(s1, o) ELSE s1
        s3 == IF Running(s2) THEN AllocArray(s2, o) ELSE s2
        s4 == IF Running(s3) THEN MapPool(s3, o) ELSE s3
    IN  IF Running(s4) THEN Return([s4 EXCEPT !.frameDetails = details], OK) ELSE s4

setFrameTypeCall(s, details, o) ==
    LET s1 == ReleaseOrKeep(s, details, o)
    IN  IF Running(s1) THEN ApplyAndAllocate(s1, details, o) ELSE s1

setFrameType ==
    /\ life = "live"
    /\ \E details \in getAvailableFrameTypes, o \in SetFrameTypeOutcomes :
          \* outcomes that cannot arise in this state repeat another outcome
          /\ o.abort => vbState = "freed"
          /\ o.step = "munmap" => (o.idx < nVideoBuffers /\ details # frameDetails)
          /\ Commit(setFrameTypeCall(Cur, details, o), "setFrameType", details)

(* ------------------------------ getFrame ----------------------------- *)
\* The outcome of one getFrame call: what select returns, how the dequeue
\* ends (errno when it fails) and which buffer the driver hands back, whether
\* the re-queue is accepted, and whether a read outside every live mapping
\* kills the process.
Errnos == {"EAGAIN", "EIO", "EINVAL"}
GetFrameOutcomes ==
    { o \in [sel : {-1, 0, 1}, dq : {"ok"} \cup Errnos, dqIdx : 0..(MaxGrant - 1),
             qOk : BOOLEAN, segv : BOOLEAN] :
        \* fields a call with this outcome never looks at are held fixed
        /\ o.sel # 1 => o.dq = "ok"
        /\ (o.sel # 1 \/ o.dq # "ok") => o.dqIdx = 0
        /\ (o.sel # 1 \/ o.dq = "EINVAL") => (o.qOk /\ ~o.segv) }

\* r = select(fd + 1, &fds, NULL, NULL, &tv) with tv = 4 s
select(s, r) ==
    Issue(s, "select", -1, CASE r = -1 -> "error" [] r = 0 -> "timeout" [] OTHER -> "ready")

SelectFailed(r) == r = -1
\* mutant: a select that returns 0 is taken for readiness
SelectTimedOut_Never(r) == FALSE

SelectTimedOut(r) == r = 0

WaitReady(s, o) ==
    LET s1 == select(s, o.sel)
    IN  IF SelectFailed(o.sel) THEN Return(s1, GENERIC_ERROR)
        ELSE IF SelectTimedOut(o.sel) THEN Return(s1, GENERIC_ERROR)
        ELSE s1

\* VIDIOC_DQBUF on a record whose index CLEAR(buf) left at 0.  The driver
\* hands back a buffer it owns, while streaming; with nothing to hand back
\* the non-blocking handle reports EAGAIN.  A failed call leaves buf untouched.
xioctl_DQBUF(s, o) ==
    LET ok == o.dq = "ok" /\ s.drvStreaming /\ o.dqIdx \in s.drvQueued
        errno == IF o.dq = "ok" THEN "EAGAIN" ELSE o.dq
        s0 == [s EXCEPT !.idx = 0]
    IN  IF ok THEN [Issue(s0, "VIDIOC_DQBUF", o.dqIdx, "ok") EXCEPT
                       !.idx = o.dqIdx, !.drvQueued = @ \ {o.dqIdx}]
        ELSE Issue(s0, "VIDIOC_DQBUF", 0, errno)

\* mutant: every dequeue failure is swallowed
DequeueTolerated_Any(errno) == TRUE

\* switch (errno) { case EAGAIN: case EIO: break; default: return ... }
DequeueTolerated(errno) == errno \in {"EAGAIN", "EIO"}

Dequeue(s, o) ==
    LET s1 == xioctl_DQBUF(s, o)
        res == s1.cmds[Len(s1.cmds)].res
    IN  IF res # "ok" /\ ~DequeueTolerated(res) THEN Return(s1, GENERIC_ERROR) ELSE s1

\* mutant: the bounds check is off by one
IndexOutOfRange_OffByOne(s) == s.idx > s.nVideoBuffers

\* if (buf.index >= m_implData->nVideoBuffers)
IndexOutOfRange(s) == s.idx >= s.nVideoBuffers

CheckIndex(s) == IF IndexOutOfRange(s) THEN Return(s, GENERIC_ERROR) ELSE s

\* The unpack loops read height*width*3/2 bytes at videoBuffers[buf.index].start
\* and write the caller's buffer.  Reading bytes no live mapping covers is
\* undefined: the process is killed, or the loop reads whatever is there.
ReadCovered(s) ==
    LET a == s.videoBuffers[s.idx + 1].start
        need == PlaneLength(s.frameDetails)
    IN  /\ s.idx + 1 \in DOMAIN s.videoBuffers
        /\ need = 0 \/ (a \in Addrs /\ s.mapped[a] >= need)

Unpack(s, o) ==
    IF ReadCovered(s) THEN Issue(s, "unpack", s.idx, "ok")
    ELSE IF o.segv THEN Return([Issue(s, "unpack", s.idx, "segv") EXCEPT !.life = "aborted"],
                               ABORT)
    ELSE Issue(s, "unpack", s.idx, "stale")

\* the final VIDIOC_QBUF of the dequeue record
Requeue(s, o) ==
    LET s1 == xioctl_QBUF(s, s.idx, o.qOk)
    IN  IF ~LastOk(s1) THEN Return(s1, GENERIC_ERROR) ELSE Return(s1, OK)

getFrameCall(s, o) ==
    LET s1 == WaitReady(s, o)
        s2 == IF Running(s1) THEN Dequeue(s1, o) ELSE s1
        s3 == IF Running(s2) THEN CheckIndex(s2) ELSE s2
        s4 == IF Running(s3) THEN Unpack(s3, o) ELSE s3
    IN  IF Running(s4) THEN Requeue(s4, o) ELSE s4

getFrame ==
    /\ life = "live"
    /\ \E o \in GetFrameOutcomes :
          \* a dequeue the driver cannot serve repeats the EAGAIN outcome
          /\ (o.sel = 1 /\ o.dq = "ok") => (drvStreaming /\ o.dqIdx \in drvQueued)
          /\ Commit(getFrameCall(Cur, o), "getFrame", NoDetails)

(* ---------------------------- ~LocalDevice --------------------------- *)
\* The outcome of the destructor: whether its stop() succeeds, the buffers
\* whose munmap fails, whether a double free kills the process, and whether
\* each close succeeds.
DestructorOutcomes ==
    [stopOk : BOOLEAN, bad : SUBSET (0..(MaxGrant - 1)), abort : BOOLEAN,
     closeFd : BOOLEAN, closeSfd : BOOLEAN]

\* if (m_implData->started) { stop(); }  -- the status of stop() is dropped
StopIfStarted(s, o) ==
    IF s.started THEN [stopCall(s, o.stopOk) EXCEPT !.ret = RUNNING] ELSE s

\* the unmap loop of the destructor: a failed munmap is logged and the loop
\* goes on
RECURSIVE UnmapEach(_, _, _)
UnmapEach(i, s, bad) ==
    IF i >= s.nVideoBuffers THEN s
    ELSE UnmapEach(i + 1, munmap(s, i, i \notin bad), bad)

\* close(m_implData->fd); close(m_implData->sfd): failures are logged only
CloseHandles(s, o) ==
    Issue(Issue(s, "close_fd", -1, Res(o.closeFd)), "close_sfd", -1, Res(o.closeSfd))

destructorCall(s, o) ==
    LET s1 == StopIfStarted(s, o)
        s2 == UnmapEach(0, s1, o.bad)
        s3 == free(s2, o.abort)
    IN  IF Running(s3) THEN Return([CloseHandles(s3, o) EXCEPT !.life = "destroyed"], OK)
        ELSE s3

destructor ==
    /\ life = "live"
    /\ \E o \in DestructorOutcomes :
          \* outcomes that cannot arise in this state repeat another outcome
          /\ o.abort => vbState = "freed"
          /\ o.bad \subseteq 0..(nVideoBuffers - 1)
          /\ ~started => o.stopOk
          /\ Commit(destructorCall(Cur, o), "~LocalDevice", NoDetails)

(* ------------------- control channel, EEPROM, sensors ------------------ *)
MaxChunks == 4
CTRL_PACKET_SIZE == 4096
LASER_TEMP_SENSOR_I2C_ADDR == 73
AFE_TEMP_SENSOR_I2C_ADDR == 75

\* firmware sizes on both sides of every packet boundary
Sizes ==
    {c * CTRL_PACKET_SIZE + r :
        c \in 0..MaxChunks, r \in {0, 1, 2, 2048, CTRL_PACKET_SIZE - 2, CTRL_PACKET_SIZE - 1}}

\* xioctl(sfd, VIDIOC_S_EXT_CTRLS) of one packet of extCtrl.size bytes that
\* starts readBytes into the firmware
xioctl_S_EXT_CTRLS(s, readBytes, want) ==
    Issue(s, "VIDIOC_S_EXT_CTRLS", readBytes, Res(want))

\* the packets written before readBytes
Ordinal(readBytes) == readBytes \div CTRL_PACKET_SIZE

\* size <= CTRL_PACKET_SIZE: one packet read straight from firmware
ProgramSingle(s, failAt) ==
    LET s1 == xioctl_S_EXT_CTRLS(s, 0, failAt # 0)
    IN  IF ~LastOk(s1) THEN Return(s1, GENERIC_ERROR) ELSE s1

\* memset(buf, 0, ...); memcpy(buf, firmware + readBytes, size - readBytes);
\* then the packet is sent from buf
TailPacket(s, readBytes, want) ==
    xioctl_S_EXT_CTRLS(Issue(s, "memcpy", readBytes, "ok"), readBytes, want)

\* while (readBytes < size)
RECURSIVE ProgramChunks(_, _, _, _)
ProgramChunks(s, size, readBytes, failAt) ==
    IF readBytes >= size THEN s
    ELSE LET want == failAt # Ordinal(readBytes)
             s1 == IF size - readBytes >= CTRL_PACKET_SIZE
                   THEN xioctl_S_EXT_CTRLS(s, readBytes, want)
                   ELSE TailPacket(s, readBytes, want)
         IN  IF ~LastOk(s1) THEN Return(s1, GENERIC_ERROR)
             ELSE ProgramChunks(s1, size, readBytes + CTRL_PACKET_SIZE, failAt)

programCall(s, size, failAt) ==
    LET s1 == IF size <= CTRL_PACKET_SIZE THEN ProgramSingle(s, failAt)
              ELSE ProgramChunks(s, size, 0, failAt)
    IN  IF Running(s1) THEN Return(s1, OK) ELSE s1

program ==
    /\ life = "live"
    /\ \E size \in Sizes, failAt \in -1..MaxChunks :
          \* the packet that fails is one the call gets to
          /\ failAt > 0 => failAt * CTRL_PACKET_SIZE < size
          /\ Commit(programCall(Cur, size, failAt), "program", size)

\* the results of open and of the read or write that follows it
AccessOutcomes == [open : BOOLEAN, access : BOOLEAN]

\* open, one read or write, close: the body shared by readEeprom,
\* writeEeprom, readAfeTemp and readLaserTemp
Access(s, dev, access, addr, o) ==
    LET s1 == Issue(s, dev \o "_open", addr, Res(o.open))
        s2 == Issue(s1, access, addr, Res(o.access))
        s3 == Issue(s2, dev \o "_close", addr, "ok")
    IN  IF ~o.open THEN Return(s1, GENERIC_ERROR)
        ELSE IF ~o.access THEN Return(s2, GENERIC_ERROR)
        ELSE Return(s3, OK)

readEeprom ==
    /\ life = "live"
    /\ \E o \in AccessOutcomes :
          /\ ~o.open => o.access
          /\ Commit(Access(Cur, "eeprom", "eeprom_read_buf", -1, o), "readEeprom", NoDetails)

writeEeprom ==
    /\ life = "live"
    /\ \E o \in AccessOutcomes :
          /\ ~o.open => o.access
          /\ Commit(Access(Cur, "eeprom", "eeprom_write_buf", -1, o), "writeEeprom", NoDetails)

readAfeTemp ==
    /\ life = "live"
    /\ \E o \in AccessOutcomes :
          /\ ~o.open => o.access
          /\ Commit(Access(Cur, "temp_sensor", "temp_sensor_read", AFE_TEMP_SENSOR_I2C_ADDR, o),
                    "readAfeTemp", NoDetails)

readLaserTemp ==
    /\ life = "live"
    /\ \E o \in AccessOutcomes :
          /\ ~o.open => o.access
          /\ Commit(Access(Cur, "temp_sensor", "temp_sensor_read", LASER_TEMP_SENSOR_I2C_ADDR, o),
                    "readLaserTemp", NoDetails)

(* ---------------------- getFrame: the unpacking ------------------------ *)
\* unsigned short arithmetic, bit by bit
RECURSIVE BitAnd(_, _)
BitAnd(x, y) ==
    IF x = 0 \/ y = 0 THEN 0
    ELSE (x % 2) * (y % 2) + 2 * BitAnd(x \div 2, y \div 2)

RECURSIVE BitOr(_, _)
BitOr(x, y) ==
    IF x = 0 THEN y
    ELSE IF y = 0 THEN x
    ELSE (IF (x % 2) + (y % 2) > 0 THEN 1 ELSE 0) + 2 * BitOr(x \div 2, y \div 2)

Shl(x, n) == x * (2 ^ n)
Shr(x, n) == x \div (2 ^ n)

\* mutant: the high byte is shifted by a whole byte
PixelEven_Shift8(b0, b2) == BitOr(Shl(b0, 8), BitAnd(b2, 15)) % 65536

\* (((unsigned short)*(pdata + i)) << 4) | (((unsigned short)*(pdata + i + 2)) & 0x000F)
PixelEven(b0, b2) == BitOr(Shl(b0, 4), BitAnd(b2, 15)) % 65536

\* (((unsigned short)*(pdata + i + 1)) << 4) | ((((unsigned short)*(pdata + i + 2)) & 0x00F0) >> 4)
PixelOdd(b1, b2) == BitOr(Shl(b1, 4), Shr(BitAnd(b2, 240), 4)) % 65536

\* the byte at pdata + i: a plane in which b0 and b2 run through all their
\* 256 * 256 combinations, and so do b1 and b2
Plane(i) ==
    LET t == i \div 3
    IN  CASE i % 3 = 0 -> t % 256
          [] i % 3 = 1 -> (t + (t \div 256)) % 256
          [] OTHER     -> (t \div 256) % 256

\* (int)(height * width * 3 / 2)
LoopLimit(u) == (u.height * u.width * 3) \div 2

\* the session's own state, which the unpacking does not touch
session == <<started, nVideoBuffers, videoBuffers, vbState, frameDetails, mapped,
             drvCount, drvQueued, drvStreaming, drvFmt, life, call, cmds>>

\* j = 0; width, height, pdata, offset[0], offset[1]
unpackBegin ==
    /\ UNCHANGED <<session, afe>>
    /\ unpack.pc = "idle"
    /\ unpack' = [unpack EXCEPT
            !.pc = IF frameDetails.width = 668 THEN "loopA" ELSE "loopB",
            !.j = 0, !.i = 0,
            !.width = frameDetails.width, !.height = frameDetails.height,
            !.offset = <<0, (frameDetails.height * frameDetails.width) \div 2>>]

\* the two pixels of the triplet at pdata + i
Triplet(i) == <<Plane(i), Plane(i + 1), Plane(i + 2)>>

\* mutant: the write cursor is rewound before every triplet but the first
Rewind_EveryTriplet(u) == u.i # 0

\* (i != 0) && (i % (336 * 3) == 0)
Rewind(u) == u.i # 0 /\ u.i % (336 * 3) = 0

\* one iteration of the loop taken when width == 668
unpackA ==
    /\ UNCHANGED <<session, afe>>
    /\ unpack.pc = "loopA"
    /\ unpack.i < LoopLimit(unpack)
    /\ LET b == Triplet(unpack.i)
           j == IF Rewind(unpack) THEN unpack.j - 4 ELSE unpack.j
       IN  unpack' = [unpack EXCEPT
                !.rewound = Rewind(unpack),
                !.read = b,
                !.wrote = <<[at |-> j, val |-> PixelEven(b[1], b[3])],
                            [at |-> j + 1, val |-> PixelOdd(b[2], b[3])]>>,
                !.j = j + 2,
                !.i = @ + 3]

\* mutant: the half-buffer is chosen from the pair index
OffsetIdx_ByPair(u) == ((u.j \div 2) \div u.width) % 2

\* offset_idx = ((j / width) % 2)
OffsetIdx(u) == (u.j \div u.width) % 2

\* one iteration of the loop taken for every other width
unpackB ==
    /\ UNCHANGED <<session, afe>>
    /\ unpack.pc = "loopB"
    /\ unpack.i < LoopLimit(unpack)
    /\ LET b == Triplet(unpack.i)
           k == OffsetIdx(unpack)
           at == unpack.offset[k + 1]
       IN  unpack' = [unpack EXCEPT
                !.offset_idx = k,
                !.read = b,
                !.wrote = <<[at |-> at, val |-> PixelEven(b[1], b[3])],
                            [at |-> at + 1, val |-> PixelOdd(b[2], b[3])]>>,
                !.offset[k + 1] = @ + 2,
                !.j = @ + 2,
                !.i = @ + 3]

\* the loop condition fails
unpackEnd ==
    /\ UNCHANGED <<session, afe>>
    /\ unpack.pc \in {"loopA", "loopB"}
    /\ unpack.i >= LoopLimit(unpack)
    /\ unpack' = [unpack EXCEPT !.pc = "done"]

(* ------------------------- writeAfeRegisters --------------------------- *)
MaxPackets == 4

\* register counts on both sides of every packet boundary (1024 registers
\* fill one packet)
Lengths ==
    {c * (CTRL_PACKET_SIZE \div 4) + d : c \in 0..(MaxPackets - 2), d \in {0, 1, 2, 512, 1023}}

\* a size_t value below 2^26 * 4096
SizeT(x) == [qh |-> 0, ql |-> x \div CTRL_PACKET_SIZE, r |-> x % CTRL_PACKET_SIZE]

IsZero(len) == len.qh = 0 /\ len.ql = 0 /\ len.r = 0

\* length > CTRL_PACKET_SIZE ? CTRL_PACKET_SIZE : length
PacketBytes(len) ==
    IF len.qh = 0 /\ len.ql = 0 THEN len.r ELSE CTRL_PACKET_SIZE

\* length -= CTRL_PACKET_SIZE, modulo 2^64
SubPacket(len) ==
    IF len.ql > 0 THEN [len EXCEPT !.ql = @ - 1]
    ELSE [len EXCEPT !.ql = Limb - 1, !.qh = (@ + Limb - 1) % Limb]

\* length *= 2 * sizeof(unsigned short); sampleCnt = 0
writeAfeBegin ==
    /\ UNCHANGED <<session, unpack>>
    /\ afe.pc = "idle"
    /\ \E n \in Lengths :
          afe' = [afe EXCEPT !.pc = "loop", !.n = n, !.length = SizeT(4 * n),
                             !.sampleCnt = 0]

\* one iteration of while (length): fill buf from address[sampleCnt] and
\* data[sampleCnt], length -= CTRL_PACKET_SIZE, write the packet.  Reading
\* the arrays past their end is undefined: the read faults or yields junk.
writeAfePacket ==
    /\ UNCHANGED <<session, unpack>>
    /\ afe.pc = "loop"
    /\ ~IsZero(afe.length)
    /\ afe.packets < MaxPackets
    /\ \E segv \in BOOLEAN, writeOk \in BOOLEAN :
          LET cnt == (PacketBytes(afe.length) + 3) \div 4
              last == afe.sampleCnt + cnt - 1
              a1 == [afe EXCEPT !.sampleCnt = (@ + cnt) % 65536, !.lastRead = last]
              a2 == [a1 EXCEPT !.length = SubPacket(@), !.packets = @ + 1]
          IN  /\ segv => (last >= afe.n /\ writeOk)
              /\ afe' = IF segv THEN [a1 EXCEPT !.pc = "aborted", !.ret = ABORT]
                        ELSE IF ~writeOk
                        THEN [a2 EXCEPT !.pc = "returned", !.ret = GENERIC_ERROR]
                        ELSE a2

\* length == 0: return status
writeAfeEnd ==
    /\ UNCHANGED <<session, unpack>>
    /\ afe.pc = "loop"
    /\ IsZero(afe.length)
    /\ afe' = [afe EXCEPT !.pc = "returned", !.ret = OK]

Next == start \/ stop \/ setFrameType \/ getFrame \/ destructor

Spec == Init /\ [][Next]_vars

\* getFrame past its bounds check on a streaming session with one buffer of
\* geometry g that the driver has just handed back
Dequeued0(g) ==
    /\ started = TRUE /\ drvStreaming = TRUE
    /\ nVideoBuffers = 1 /\ drvCount = 1 /\ drvQueued = {}
    /\ videoBuffers = <<[start |-> 1, length |-> PlaneLength(g)]>>
    /\ vbState = "alloc"
    /\ frameDetails = g /\ drvFmt = g
    /\ mapped = [a \in Addrs |-> IF a = 1 THEN PlaneLength(g) ELSE 0]
    /\ life = "live"

InitUnpack ==
    /\ \E g \in getAvailableFrameTypes : Dequeued0(g)
    /\ call = [op |-> "start", arg |-> NoDetails, ret |-> OK]
    /\ cmds = <<Cmd("VIDIOC_QBUF", 0, "ok"), Cmd("VIDIOC_STREAMON", -1, "ok")>>
    /\ unpack = NotUnpacking
    /\ afe = NotWriting

NextUnpack == unpackBegin \/ unpackA \/ unpackB \/ unpackEnd

SpecUnpack == InitUnpack /\ [][NextUnpack]_vars

\* the operations that use only the control channel, the EEPROM and the
\* temperature sensors
NextControl == program \/ readEeprom \/ writeEeprom \/ readAfeTemp \/ readLaserTemp

SpecControl == Init /\ [][NextControl]_vars

NextAfe == writeAfeBegin \/ writeAfePacket \/ writeAfeEnd

SpecAfe == Init /\ [][NextAfe]_vars

\* the same program on a system where munmap never fails
UnmapsSucceeded == \A k \in 1..Len(cmds) : cmds[k].cmd = "munmap" => cmds[k].res = "ok"

NextUnmapOk ==
    \/ start \/ stop \/ getFrame
    \/ (setFrameType /\ UnmapsSucceeded')
    \/ (destructor /\ UnmapsSucceeded')

SpecUnmapOk == Init /\ [][NextUnmapOk]_vars

(* ============================== claims =============================== *)
Has(c) == \E k \in 1..Len(cmds) : cmds[k].cmd = c

\* C1: start() while started, and stop() while not started, return BUSY,
\* issue no driver command and leave the started flag as it was.
C1_BusyRejected ==
    [][ /\ (call'.op = "start" /\ started) =>
              (call'.ret = BUSY /\ cmds' = <<>> /\ started' = started)
        /\ (call'.op = "stop" /\ ~started) =>
              (call'.ret = BUSY /\ cmds' = <<>> /\ started' = started) ]_vars

\* a second start() on a streaming session with a non-empty pool was rejected
C1_Witness ==
    call.op = "start" /\ call.ret = BUSY /\ started /\ nVideoBuffers > 0 /\ cmds = <<>>

\* C2: start() from Idle enqueues buffers 0..N-1 in index order, issues
\* stream-on only after all N enqueues succeeded, sets started only after
\* stream-on succeeded; the first failing command ends the call with an
\* error, nothing is issued after it and started stays false.
C2_StartSequence ==
    [][ (call'.op = "start" /\ ~started) =>
          LET n == nVideoBuffers
              L == Len(cmds')
          IN  /\ 1 <= L /\ L <= n + 1
              /\ \A k \in 1..L :
                    /\ k <= n => (cmds'[k].cmd = "VIDIOC_QBUF" /\ cmds'[k].idx = k - 1)
                    /\ k = n + 1 => cmds'[k].cmd = "VIDIOC_STREAMON"
                    /\ k < L => cmds'[k].res = "ok"
              /\ started' <=> (L = n + 1 /\ cmds'[L].res = "ok")
              /\ call'.ret = IF started' THEN OK ELSE GENERIC_ERROR
              /\ ~started' => cmds'[L].res = "fail" ]_vars

\* a start() that enqueued a whole pool of at least two buffers and then
\* turned streaming on
C2_Witness ==
    /\ call.op = "start" /\ call.ret = OK /\ started
    /\ nVideoBuffers >= 2 /\ Len(cmds) = nVideoBuffers + 1

\* C3: stop() from Streaming issues exactly one stream-off; on success the
\* session is Idle and stop returns OK, on failure it returns an error and
\* the session stays Streaming; so started always equals the state the last
\* successful stream command left the driver in.
C3_StopSequence ==
    /\ [](started = drvStreaming)
    /\ [][ (call'.op = "stop" /\ started) =>
             /\ Len(cmds') = 1 /\ cmds'[1].cmd = "VIDIOC_STREAMOFF"
             /\ cmds'[1].res = "ok" => (~started' /\ call'.ret = OK)
             /\ cmds'[1].res = "fail" => (started' /\ call'.ret = GENERIC_ERROR) ]_vars

\* a stop() whose stream-off failed, leaving the session streaming
C3_Witness ==
    /\ call.op = "stop" /\ call.ret = GENERIC_ERROR /\ started
    /\ cmds = <<Cmd("VIDIOC_STREAMOFF", -1, "fail")>>

\* the positions of a call log holding a call of the given name
AtIn(log, c) == {k \in 1..Len(log) : log[k].cmd = c}
At(c) == AtIn(cmds, c)

\* the last call was a getFrame whose dequeue was reached
Dequeued == call.op = "getFrame" /\ Len(cmds) >= 2 /\ cmds[2].cmd = "VIDIOC_DQBUF"

\* C4: whenever getFrame dequeued a buffer, it re-queued that same buffer
\* index exactly once before returning, and queued no other index.
C4_RequeueAlways ==
    (Dequeued /\ cmds[2].res = "ok" /\ call.ret # ABORT) =>
        /\ Cardinality(At("VIDIOC_QBUF")) = 1
        /\ \A k \in At("VIDIOC_QBUF") : cmds[k].idx = cmds[2].idx

\* C5: when select times out, getFrame returns an error having issued no
\* dequeue, no unpack and no queue, and the driver owns the same buffers as
\* before.
C5_TimeoutNoDequeue ==
    [][ (call'.op = "getFrame" /\ cmds'[1].res = "timeout") =>
          /\ cmds' = <<Cmd("select", -1, "timeout")>>
          /\ call'.ret = GENERIC_ERROR
          /\ drvQueued' = drvQueued ]_vars

\* a getFrame timed out while the driver was streaming and held buffers
C5_Witness ==
    /\ call.op = "getFrame" /\ cmds = <<Cmd("select", -1, "timeout")>>
    /\ drvStreaming /\ drvQueued # {} /\ nVideoBuffers > 0

\* C6: after a failed dequeue getFrame goes on (bounds check of the index
\* left in the record, unpack, re-queue) only for EAGAIN and EIO; any other
\* failure returns an error at once, with no unpack and no queue.
C6_OnlyTransientSwallowed ==
    (Dequeued /\ cmds[2].res # "ok") =>
        /\ cmds[2].idx = 0
        /\ cmds[2].res \notin {"EAGAIN", "EIO"} =>
              (Len(cmds) = 2 /\ call.ret = GENERIC_ERROR)
        /\ (cmds[2].res \in {"EAGAIN", "EIO"} /\ nVideoBuffers > 0) =>
              /\ Len(cmds) >= 3 /\ cmds[3].cmd = "unpack" /\ cmds[3].idx = 0
              /\ call.ret # ABORT =>
                    (Len(cmds) = 4 /\ cmds[4].cmd = "VIDIOC_QBUF" /\ cmds[4].idx = 0)
        /\ (cmds[2].res \in {"EAGAIN", "EIO"} /\ nVideoBuffers = 0) =>
              (Len(cmds) = 2 /\ call.ret = GENERIC_ERROR)

\* a dequeue failed with an errno that is not swallowed, on a session whose
\* pool holds buffer 0
C6_Witness ==
    Dequeued /\ cmds[2].res = "EINVAL" /\ nVideoBuffers > 0 /\ drvStreaming

\* C7: getFrame reads no pool entry at an index >= nVideoBuffers: an
\* out-of-range dequeued index ends the call with an error before the pool
\* array is read or the output written.
C7_IndexChecked ==
    Dequeued =>
        /\ \A k \in At("unpack") : cmds[k].idx < nVideoBuffers
        /\ (cmds[2].res = "ok" /\ cmds[2].idx >= nVideoBuffers) =>
              (Len(cmds) = 2 /\ call.ret = GENERIC_ERROR)

\* the driver handed back a buffer index the pool no longer covers
C7_Witness ==
    Dequeued /\ cmds[2].res = "ok" /\ cmds[2].idx >= nVideoBuffers
\* the second of two setFrameType calls did nothing
NoReallocation ==
    /\ cmds' = <<>> /\ call'.ret = OK
    /\ nVideoBuffers' = nVideoBuffers /\ videoBuffers' = videoBuffers

\* C8 (as claimed): whenever setFrameType(g) is called twice in a row, the
\* second call issues no unmap, set-format, buffer request or mmap, returns
\* success and leaves the pool count and every (address, length) unchanged.
C8_SecondCallNoop ==
    [][ (call.op = "setFrameType" /\ call'.op = "setFrameType" /\ call'.arg = call.arg)
            => NoReallocation ]_vars

\* C8 (amended): the same, when the first of the two calls returned success
\* and left a non-empty pool.
C8_SecondCallNoopAfterSuccess ==
    [][ ( /\ call.op = "setFrameType" /\ call.ret = OK /\ nVideoBuffers # 0
          /\ call'.op = "setFrameType" /\ call'.arg = call.arg )
            => NoReallocation ]_vars

\* a setFrameType(g) that found g current and the pool in place, and
\* returned success without issuing anything
C8_Witness ==
    /\ call.op = "setFrameType" /\ call.ret = OK /\ cmds = <<>>
    /\ frameDetails = call.arg /\ nVideoBuffers > 0

\* C9 (as claimed): on a geometry change set-format is issued only after the
\* new pool was requested and mapped.
C9_FormatAfterAllocation ==
    [][ (call'.op = "setFrameType" /\ call'.arg # frameDetails) =>
          \A k \in AtIn(cmds', "VIDIOC_S_FMT") :
              \E j \in 1..(k - 1) : cmds'[j] = Cmd("VIDIOC_REQBUFS", ReqCount, "ok") ]_vars

Rank(c) ==
    CASE c = "munmap" -> 1
      [] c = "free" -> 2
      [] c = "VIDIOC_S_FMT" -> 3
      [] c = "VIDIOC_REQBUFS" -> 4
      [] c = "calloc" -> 5
      [] OTHER -> 6

\* C9 (amended): on a geometry change setFrameType first unmaps the old pool
\* (buffers 0..n-1, then frees the array), then applies the new format, and
\* only then requests, queries and maps the new pool; the buffer request is
\* issued only right after a successful set-format.
C9_ReleaseFormatAllocate ==
    [][ (call'.op = "setFrameType" /\ call'.arg # frameDetails) =>
          LET log == cmds'
              n == nVideoBuffers
          IN  /\ \A k \in 2..Len(log) : Rank(log[k - 1].cmd) <= Rank(log[k].cmd)
              /\ \A k \in AtIn(log, "VIDIOC_S_FMT") :
                    /\ k = n + 2
                    /\ \A i \in 0..(n - 1) : log[i + 1] = Cmd("munmap", i, "ok")
                    /\ log[n + 1].cmd = "free"
              /\ \A k \in AtIn(log, "VIDIOC_REQBUFS") :
                    k > 1 /\ log[k - 1] = Cmd("VIDIOC_S_FMT", -1, "ok")
              /\ \A k \in AtIn(log, "VIDIOC_QUERYBUF") \cup AtIn(log, "mmap") :
                    \E j \in 1..(k - 1) : log[j] = Cmd("VIDIOC_REQBUFS", ReqCount, "ok") ]_vars

\* a geometry change that unmapped an old pool and mapped a new one
C9_Witness ==
    /\ call.op = "setFrameType" /\ call.ret = OK
    /\ Has("munmap") /\ Has("VIDIOC_S_FMT") /\ Has("mmap")

\* C10: the release phase of setFrameType does not fail the caller when an
\* unmap fails, and the pool count never covers a buffer that is no longer
\* mapped.
C10_ReleaseToleratesUnmapFailure ==
    /\ (call.op = "setFrameType" /\ cmds # <<>>) =>
          cmds[Len(cmds)] \notin {Cmd("munmap", i, "fail") : i \in 0..(MaxGrant - 1)}
    /\ \A i \in 0..(nVideoBuffers - 1) :
          /\ i + 1 \in DOMAIN videoBuffers
          /\ videoBuffers[i + 1].start \in Addrs
          /\ mapped[videoBuffers[i + 1].start] # 0
\* the addresses that hold a live mapping
Live == {a \in Addrs : mapped[a] # 0}

\* C11: when no munmap fails, a release (geometry change or destruction)
\* unmaps each pool buffer exactly once, before any new mapping is made, and
\* the pool count restarts from 0; live mappings are always of one geometry
\* and each is counted in the pool.
C11_ReleaseUnmapsOnce ==
    /\ [](/\ \A a, b \in Live : mapped[a] = mapped[b]
          /\ \A a \in Live : \E i \in 0..(nVideoBuffers - 1) :
                i + 1 \in DOMAIN videoBuffers /\ videoBuffers[i + 1].start = a)
    /\ [][ ( \/ call'.op = "~LocalDevice"
             \/ (call'.op = "setFrameType" /\ call'.arg # frameDetails) ) =>
            LET log == cmds'
                n == nVideoBuffers
            IN  /\ Cardinality(AtIn(log, "munmap")) = n
                /\ \A i \in 0..(n - 1) : \E k \in 1..Len(log) : log[k] = Cmd("munmap", i, "ok")
                /\ \A j \in AtIn(log, "munmap"), k \in AtIn(log, "mmap") : j < k
                /\ call'.op = "setFrameType" =>
                      nVideoBuffers' =
                          Cardinality({k \in AtIn(log, "mmap") : log[k].res = "ok"})
                /\ call'.op = "~LocalDevice" => \A a \in Addrs : mapped'[a] = 0 ]_vars

\* a geometry change released a pool of at least two buffers and mapped a
\* new one for the requested geometry
C11_Witness ==
    /\ call.op = "setFrameType" /\ call.ret = OK /\ frameDetails = call.arg
    /\ Cardinality(At("munmap")) >= 2 /\ nVideoBuffers >= 1
    /\ \A a \in Live : mapped[a] = PlaneLength(call.arg)
\* C12: destruction performs, in this order and on every path, stop() iff
\* the session is still started, one unmap attempt per pool buffer, close of
\* the capture handle, close of the control-channel handle; no failure of an
\* earlier step prevents a later one.
C12_DestructionOrder ==
    [][ call'.op = "~LocalDevice" =>
            LET log == cmds'
                n == nVideoBuffers
            IN  /\ started <=> AtIn(log, "VIDIOC_STREAMOFF") # {}
                /\ Cardinality(AtIn(log, "munmap")) = n
                /\ \A i \in 0..(n - 1) :
                      \E k \in AtIn(log, "munmap") : log[k].idx = i
                /\ \A j \in AtIn(log, "VIDIOC_STREAMOFF"), k \in AtIn(log, "munmap") : j < k
                /\ Len(log) >= 2
                /\ log[Len(log) - 1].cmd = "close_fd"
                /\ log[Len(log)].cmd = "close_sfd" ]_vars
\* C18: buffer ownership alternates: start() and getFrame() hand an index to
\* the driver only while the application holds it, and getFrame() unpacks
\* (and hands back) only an index it received through a successful dequeue
\* in the same call.
C18_OwnershipAlternates ==
    [][ /\ call'.op = "start" =>
              \A k \in AtIn(cmds', "VIDIOC_QBUF") : cmds'[k].idx \notin drvQueued
        /\ call'.op = "getFrame" =>
              \A k \in AtIn(cmds', "unpack") \cup AtIn(cmds', "VIDIOC_QBUF") :
                  \E j \in 1..(k - 1) :
                      cmds'[j] = Cmd("VIDIOC_DQBUF", cmds'[k].idx, "ok") ]_vars
\* C19: whenever setFrameType(g) returns success, the recorded geometry is
\* g, the format last applied to the device is g, and the pool holds exactly
\* the buffers granted by the latest buffer request, each mapped with the
\* plane length of g.
C19_SuccessMeansPoolForGeometry ==
    (call.op = "setFrameType" /\ call.ret = OK) =>
        /\ frameDetails = call.arg
        /\ drvFmt = call.arg
        /\ nVideoBuffers = drvCount
        /\ \A i \in 1..nVideoBuffers :
              /\ i \in DOMAIN videoBuffers
              /\ videoBuffers[i].start \in Addrs
              /\ mapped[videoBuffers[i].start] = PlaneLength(call.arg)
\* C20: each allocated videoBuffers array is freed exactly once: free is
\* never applied to an array that was already freed, and calloc never
\* replaces the pointer to an array that is still allocated.
C20_ArrayFreedOnce ==
    /\ [](\A k \in At("free") : cmds[k].res # "double")
    /\ [][ (vbState = "alloc" /\ AtIn(cmds', "calloc") # {}) =>
               AtIn(cmds', "free") # {} ]_vars
\* triplets consumed so far by the unpacking loop
Triplets == unpack.i \div 3

\* C13: in both loops the two pixels written for a triplet (b0, b1, b2) are
\* (b0 << 4) | (b2 & 0x0F) and (b1 << 4) | ((b2 & 0xF0) >> 4), at adjacent
\* positions, each in 0..4095.
C13_PixelPair ==
    (unpack.pc \in {"loopA", "loopB"} /\ Triplets > 0) =>
        LET b0 == unpack.read[1]
            b1 == unpack.read[2]
            b2 == unpack.read[3]
        IN  /\ unpack.read = Triplet(unpack.i - 3)
            /\ unpack.wrote[1].val = b0 * 16 + (b2 % 16)
            /\ unpack.wrote[2].val = b1 * 16 + (b2 \div 16)
            /\ unpack.wrote[2].at = unpack.wrote[1].at + 1
            /\ unpack.wrote[1].val \in 0..4095
            /\ unpack.wrote[2].val \in 0..4095

\* both loops have written pixel pairs whose bytes are all ones
C13_Witness ==
    /\ unpack.pc \in {"loopA", "loopB"}
    /\ unpack.read = <<255, 254, 255>>
    /\ unpack.wrote[1].val = 4095

\* C14: with width 668 the pixels are written in triplet order, the write
\* cursor is rewound by 4 before triplet t exactly when t > 0 and
\* t mod 336 = 0, and the final write cursor equals height * width.
C14_RewindAndTotal ==
    /\ (unpack.pc = "loopA" /\ Triplets > 0) =>
          LET t == Triplets - 1
          IN  /\ unpack.rewound <=> (t > 0 /\ t % 336 = 0)
              /\ unpack.wrote[1].at = 2 * t - 4 * (t \div 336)
              /\ unpack.j = unpack.wrote[1].at + 2
    /\ (unpack.pc = "done" /\ unpack.width = 668) =>
          unpack.j = unpack.height * unpack.width

\* C15 as stated: the pair with index pairIndex goes to the first half when
\* (pairIndex / width) % 2 = 0 and to the second half otherwise.
C15_HalfByPairIndex ==
    (unpack.pc = "loopB" /\ Triplets > 0) =>
        unpack.offset_idx = ((Triplets - 1) \div unpack.width) % 2

\* C15: with any other width the pair with index pairIndex goes to the first
\* half when ((2 * pairIndex) / width) % 2 = 0 and to the second half
\* otherwise; the halves are filled contiguously from 0 and from
\* height * width / 2, and at the end each holds height * width / 2 pixels.
C15_HalfByPixelRow ==
    LET w == unpack.width
        half == (unpack.height * w) \div 2
        row == unpack.j \div w
        col == unpack.j % w
    IN  /\ (unpack.pc = "loopB" /\ Triplets > 0) =>
              /\ unpack.offset_idx = ((2 * (Triplets - 1)) \div w) % 2
              /\ unpack.wrote[1].at = unpack.offset[unpack.offset_idx + 1] - 2
        /\ unpack.pc = "loopB" =>
              /\ unpack.j = 2 * Triplets
              /\ unpack.offset[1] = w * ((row + 1) \div 2) + (IF row % 2 = 0 THEN col ELSE 0)
              /\ unpack.offset[2] =
                    half + w * (row \div 2) + (IF row % 2 = 1 THEN col ELSE 0)
        /\ (unpack.pc = "done" /\ w # 668) =>
              /\ unpack.offset[1] = half
              /\ unpack.offset[2] = 2 * half

\* the unpacking of a 640x960 frame has finished
C15_Witness ==
    /\ unpack.pc = "done" /\ unpack.width = 640 /\ unpack.height = 960
    /\ unpack.offset_idx = 1
\* the packets program() must write for a firmware of the given size
Packets(size) ==
    IF size <= CTRL_PACKET_SIZE THEN 1
    ELSE (size + CTRL_PACKET_SIZE - 1) \div CTRL_PACKET_SIZE

\* C16: program(firmware, size) issues one write when size <= 4096 and
\* ceil(size / 4096) writes otherwise, at offsets 0, 4096, 8192, ..., every
\* packet that holds a short chunk (1..4095 firmware bytes) being
\* zero-padded, and stops with an error at the first failed write.
C16_ChunkedWrites ==
    call.op = "program" =>
        LET size == call.arg
            W == At("VIDIOC_S_EXT_CTRLS")
        IN  /\ \A k \in W : cmds[k].idx = CTRL_PACKET_SIZE * (Cardinality({j \in W : j < k}))
            /\ \A k \in W : cmds[k].res = "fail" => (k = Len(cmds) /\ call.ret = GENERIC_ERROR)
            /\ call.ret = OK => Cardinality(W) = Packets(size)
            /\ call.ret # OK => (W # {} /\ cmds[Len(cmds)].res = "fail"
                                  /\ Cardinality(W) <= Packets(size))
            /\ \A k \in W :
                  (0 < size - cmds[k].idx /\ size - cmds[k].idx < CTRL_PACKET_SIZE) =>
                      (k > 1 /\ cmds[k - 1] = Cmd("memcpy", cmds[k].idx, "ok"))

\* C17: in readEeprom, writeEeprom, readAfeTemp and readLaserTemp every
\* successful open is followed by exactly one close of that device before
\* the operation returns, also when the read or write fails.
C17_ScopedAccess ==
    call.op \in {"readEeprom", "writeEeprom", "readAfeTemp", "readLaserTemp"} =>
        \A k \in 1..Len(cmds) :
            (cmds[k].cmd \in {"eeprom_open", "temp_sensor_open"} /\ cmds[k].res = "ok") =>
                Cardinality({j \in (k + 1)..Len(cmds) :
                                cmds[j].cmd \in {"eeprom_close", "temp_sensor_close"}}) = 1
\* C21: with every write succeeding, writeAfeRegisters(length) writes
\* exactly ceil(4 * length / 4096) packets and returns, its remaining-byte
\* counter never wraps below zero, and it never reads address[k] or data[k]
\* for k >= length.
C21_WriteAfeTerminates ==
    (afe.pc # "idle" /\ afe.ret # GENERIC_ERROR) =>
        LET packets == (4 * afe.n + CTRL_PACKET_SIZE - 1) \div CTRL_PACKET_SIZE
        IN  /\ afe.packets <= packets
            /\ afe.pc = "returned" => afe.packets = packets
            /\ afe.length.qh = 0
            /\ (afe.length.ql * CTRL_PACKET_SIZE + afe.length.r) + afe.packets * CTRL_PACKET_SIZE
                  <= packets * CTRL_PACKET_SIZE
            /\ afe.lastRead < afe.n
            /\ afe.pc # "aborted"
\* C22: for both catalog geometries every index written into the output
\* array lies in 0 .. height * width - 1; with width 668 the write cursor
\* is never negative, and with any other width each running offset stays in
\* its own half, [0, height * width / 2) or [height * width / 2, height * width).
C22_WritesInBounds ==
    LET size == unpack.height * unpack.width
        half == size \div 2
    IN  /\ (unpack.pc \in {"loopA", "loopB"} /\ Triplets > 0) =>
              \A k \in 1..2 : unpack.wrote[k].at \in 0..(size - 1)
        /\ unpack.pc = "loopA" => unpack.j >= 0
        /\ (unpack.pc = "loopB" /\ Triplets > 0) =>
              \A k \in 1..2 :
                  IF unpack.offset_idx = 0 THEN unpack.wrote[k].at \in 0..(half - 1)
                  ELSE unpack.wrote[k].at \in half..(size - 1)
        /\ unpack.pc \in {"loopB", "done"} =>
              /\ unpack.offset[1] \in 0..half
              /\ unpack.offset[2] \in half..size

\* the last pixel of a 640x960 output array has been written
C22_Witness ==
    /\ unpack.pc = "loopB" /\ unpack.offset_idx = 1
    /\ unpack.wrote[2].at = unpack.height * unpack.width - 1

====
